---- MODULE Spec2Model ----
(***************************************************************************)
(* Model of src/src/element/conic.js (JSXGraph conic sections): the four   *)
(* constructors createEllipse, createHyperbola, createParabola and         *)
(* createConic, their polarForm evaluators with the suspendUpdate cache    *)
(* protocol, and the state each closure keeps (rotationMatrix,             *)
(* curve.quadraticform, eigen, a, b, c, M).                                *)
(*                                                                         *)
(* Numbers.  JavaScript numbers are modelled as exact extended rationals   *)
(* <<n, d>> with d >= 0 and gcd(n, d) = 1: <<n, d>> with d > 0 is n/d,     *)
(* <<1, 0>> is Infinity, <<-1, 0>> is -Infinity and <<0, 0>> is NaN.       *)
(* Rounding and signed zeros are not modelled.  Math.sqrt, Math.cos,       *)
(* Math.sin, Math.tan and Math.atan2 are exact on the inputs the model     *)
(* enumerates (all square roots taken are of perfect squares or of         *)
(* negative numbers; all angles have rational sine and cosine).            *)
(*                                                                         *)
(* Indices.  JavaScript arrays are 0-based, TLA+ tuples 1-based: m[i][j]   *)
(* of the source is m[i+1][j+1] here.                                      *)
(***************************************************************************)
EXTENDS Integers, Sequences, FiniteSets, TLC

(***************************************************************************)
(* Bounds of the model.                                                    *)
(***************************************************************************)
\* the midpoint of the foci, the parabola focus and the movable fifth point
\* are at (0, 0), at (1, 1) or at (k, 0) with 1 <= k <= MaxMid
MaxMid == 1
\* the curve parameter is drawn from 0..MaxParam
MaxParam == 1

(***************************************************************************)
(* Extended rational arithmetic (JavaScript number semantics, exact).      *)
(***************************************************************************)
RECURSIVE GCD(_, _)
GCD(m, n) == IF n = 0 THEN m ELSE GCD(n, m % n)

IAbs(n) == IF n < 0 THEN -n ELSE n

ISgn(n) == IF n < 0 THEN -1 ELSE IF n > 0 THEN 1 ELSE 0

\* the value n/d for d >= 0, in lowest terms; d = 0 gives +-Infinity or NaN
Norm(n, d) ==
    IF d = 0 THEN <<ISgn(n), 0>>
    ELSE LET g == GCD(IAbs(n), d) IN <<n \div g, d \div g>>

NaN == <<0, 0>>
Infinity == <<1, 0>>
R(n) == <<n, 1>>
Q(n, d) == Norm(n, d)

IsNaN(x) == x = NaN
IsFinite(x) == x[2] > 0

RNeg(x) == <<-x[1], x[2]>>

\* x + y, over the least common denominator
RAdd(x, y) ==
    IF x[2] = 0 /\ y[2] = 0
    THEN (IF x[1] = y[1] THEN x ELSE NaN)
    ELSE IF x[2] = 0 THEN x
    ELSE IF y[2] = 0 THEN y
    ELSE LET g == GCD(x[2], y[2])
         IN  Norm(x[1] * (y[2] \div g) + y[1] * (x[2] \div g), (x[2] \div g) * y[2])

RSub(x, y) == RAdd(x, RNeg(y))

\* x * y, cancelling across before multiplying
RMul(x, y) ==
    IF x[2] = 0 \/ y[2] = 0
    THEN <<ISgn(x[1]) * ISgn(y[1]), 0>>
    ELSE LET g1 == GCD(IAbs(x[1]), y[2])
             g2 == GCD(IAbs(y[1]), x[2])
         IN  <<(x[1] \div g1) * (y[1] \div g2), (x[2] \div g2) * (y[2] \div g1)>>

\* 1 / x
RInv(x) == IF x[1] < 0 THEN <<-x[2], -x[1]>> ELSE <<x[2], x[1]>>

RDiv(x, y) == RMul(x, RInv(y))

\* x < y ; false when either is NaN
RLt(x, y) ==
    /\ ~IsNaN(x)
    /\ ~IsNaN(y)
    /\ IF x[2] = 0 /\ y[2] = 0 THEN x[1] < y[1]
       ELSE x[1] * y[2] < y[1] * x[2]

RGt(x, y) == RLt(y, x)

\* x <= y ; false when either is NaN
RLe(x, y) == ~IsNaN(x) /\ ~IsNaN(y) /\ ~RLt(y, x)

RAbs(x) == <<IAbs(x[1]), x[2]>>

IsSquare(n) == \E k \in 0..n : k * k = n

ISqrt(n) == CHOOSE k \in 0..n : k * k = n

\* Math.sqrt, exact: NaN for a negative argument, defined on perfect squares
Sqrt(x) ==
    IF IsNaN(x) \/ x[1] < 0 THEN NaN
    ELSE IF x[2] = 0 THEN Infinity
    ELSE <<ISqrt(x[1]), ISqrt(x[2])>>

(***************************************************************************)
(* Mat: 3x3 matrices and 3-vectors (JXG.Math).                             *)
(***************************************************************************)
I3 == 1..3

Identity == << <<R(1), R(0), R(0)>>, <<R(0), R(1), R(0)>>, <<R(0), R(0), R(1)>> >>

innerProduct(v, w) ==
    RAdd(RAdd(RMul(v[1], w[1]), RMul(v[2], w[2])), RMul(v[3], w[3]))

\* the one element of a singleton set: Only({e(x) : x \in {d}}) is e(d), with
\* d evaluated once
Only(S) == CHOOSE x \in S : TRUE

matVecMult(m, v) ==
    <<innerProduct(m[1], v), innerProduct(m[2], v), innerProduct(m[3], v)>>

transpose(m) ==
    << <<m[1][1], m[2][1], m[3][1]>>,
       <<m[1][2], m[2][2], m[3][2]>>,
       <<m[1][3], m[2][3], m[3][3]>> >>

matMatMult(m1, m2) ==
    Only({ <<matVecMult(t, m1[1]), matVecMult(t, m1[2]), matVecMult(t, m1[3])>> :
             t \in {transpose(m2)} })

crossProduct(c1, c2) ==
    << RSub(RMul(c1[2], c2[3]), RMul(c1[3], c2[2])),
       RSub(RMul(c1[3], c2[1]), RMul(c1[1], c2[3])),
       RSub(RMul(c1[1], c2[2]), RMul(c1[2], c2[1])) >>

\* p^t * m * p
QuadForm(m, p) == innerProduct(p, matVecMult(m, p))

IsSymmetric(m) == \A i \in I3 : \A j \in I3 : m[i][j] = m[j][i]

(***************************************************************************)
(* Points: <<x, y>> with exact coordinates (JXG.Point).                    *)
(***************************************************************************)
Pt(x, y) == <<R(x), R(y)>>

\* squared Euclidean distance
Dist2(p, q) ==
    LET dx == RSub(p[1], q[1])
        dy == RSub(p[2], q[2])
    IN  RAdd(RMul(dx, dx), RMul(dy, dy))

\* point.Dist(other)
Dist(p, q) == Sqrt(Dist2(p, q))

\* point.coords.usrCoords = [1, x, y]
usrCoords(p) == <<R(1), p[1], p[2]>>

(***************************************************************************)
(* Math.cos, Math.sin, Math.tan, Math.atan2, Math.atan on the angles of    *)
(* the model.  The curve parameter phi is 2*atan(k/3) for an integer k, so *)
(* that its sine and cosine are rational.                                  *)
(***************************************************************************)
Params == 0..MaxParam

Cos(k) == Q(9 - k * k, 9 + k * k)

Sin(k) == Q(6 * k, 9 + k * k)

Tan(k) == RDiv(Sin(k), Cos(k))

\* <<cos(beta), sin(beta)>> for beta = Math.atan2(dy, dx)
CosSinAtan2(dy, dx) ==
    LET len == Sqrt(RAdd(RMul(dx, dx), RMul(dy, dy)))
    IN  <<RDiv(dx, len), RDiv(dy, len)>>

(***************************************************************************)
(* State.                                                                  *)
(***************************************************************************)
VARIABLES
    family,          \* which constructor built the curve
    F,               \* createEllipse / createHyperbola: the foci F[0], F[1]
    axis,            \* the value majorAxis() returns now
    F1,              \* createParabola: the focus
    l,               \* createParabola: the directrix, l.stdform = [c, a, b]
    points,          \* createConic: points[0..4]
    parents,         \* createConic: the six coefficients, as they evaluate now
    rotationMatrix,  \* closure variable rotationMatrix
    quadraticform,   \* curve.quadraticform
    M,               \* createConic: closure variable M
    eigen,           \* createConic: closure variable eigen = [values, vectors]
    abc,             \* createConic: closure variables <<a, b, c>>
    solver,          \* what Numerics.Jacobi returns for a non-diagonal matrix
    call,            \* the call of curve.X / curve.Y the last step made, if any
    rec,             \* the last recomputing call and what it left (history)
    changed,         \* an input changed since the last recomputing call (history)
    construction     \* the constructor call: its parents and what it ended in

inputs == <<F, axis, F1, l, points, parents>>

cache == <<rotationMatrix, quadraticform, M, eigen, abc>>

vars == <<family, F, axis, F1, l, points, parents, rotationMatrix,
          quadraticform, M, eigen, abc, solver, call, rec, changed,
          construction>>

\* a JavaScript variable that was never assigned
Undefined == << >>

\* call: op is "X" or "Y" ("none" before the first call); v is the vector
\* polarForm returned and ret the coordinate handed to the caller; threw says
\* that the call raised a TypeError instead of returning; stale says that an
\* input had changed since the last recomputing call when it was made, for a
\* call with suspendUpdate = true; again says the same for a recomputing call
NoCall == [op |-> "none", phi |-> 0, suspendUpdate |-> FALSE, stale |-> FALSE,
           again |-> FALSE, threw |-> FALSE, v |-> Undefined, ret |-> NaN]

(***************************************************************************)
(* createEllipse and createHyperbola.                                      *)
(***************************************************************************)
\* Math.abs(bx - ax) > 0.0000001
EpsSlope == Q(1, 10000000)

\* faulty variant: the first focus is read twice
MidpointOfFirst(f) ==
    << RMul(RAdd(f[1][1], f[1][1]), Q(1, 2)),
       RMul(RAdd(f[1][2], f[1][2]), Q(1, 2)) >>

\* the point M: the mean of the foci, evaluated on access
Midpoint(f) ==
    << RMul(RAdd(f[1][1], f[2][1]), Q(1, 2)),
       RMul(RAdd(f[1][2], f[2][2]), Q(1, 2)) >>

\* <<cos(beta), sin(beta)>> of transformFunc
FociCosSin(f) ==
    LET ax == f[1][1]
        ay == f[1][2]
        bx == f[2][1]
        by == f[2][2]
        dx == RSub(bx, ax)
        dy == RSub(by, ay)
        sgn == IF RGt(dx, R(0)) THEN 1 ELSE -1
        cs == CosSinAtan2(dy, dx)
    IN  IF RGt(RAbs(dx), EpsSlope)
        THEN (IF sgn < 0 THEN <<RNeg(cs[1]), RNeg(cs[2])>> ELSE cs)
        ELSE (IF RGt(dy, R(0)) THEN <<R(0), R(1)>> ELSE <<R(0), R(-1)>>)

\* faulty variant: the sine has the same sign in both rows
transformFuncSameSign(f) ==
    LET cs == FociCosSin(f)
        m  == Midpoint(f)
    IN  << <<R(1), R(0), R(0)>>,
           <<m[1], cs[1], cs[2]>>,
           <<m[2], cs[2], cs[1]>> >>

\* transformFunc of createEllipse and of createHyperbola
transformFunc(f) ==
    LET cs == FociCosSin(f)
        co == cs[1]
        si == cs[2]
        m  == Midpoint(f)
    IN  << <<R(1), R(0), R(0)>>,
           <<m[1], co, RNeg(si)>>,
           <<m[2], si, co>> >>

\* transformMat as polarForm fills it from rotationMatrix and (mx, my)
transformMat(rot, mx, my) ==
    << <<rot[1][1], R(0), R(0)>>,
       <<RAdd(RMul(mx, RSub(R(1), rot[2][2])), RMul(my, rot[2][3])),
         rot[2][2], rot[3][2]>>,
       <<RSub(RMul(my, RSub(R(1), rot[2][2])), RMul(mx, rot[2][3])),
         rot[2][3], rot[3][3]>> >>

\* a, e, bb, b of createEllipse.polarForm, read on every call
EllipseA == RMul(axis, Q(1, 2))
EllipseE == RMul(Dist(F[2], F[1]), Q(1, 2))
EllipseBB == RSub(RMul(EllipseA, EllipseA), RMul(EllipseE, EllipseE))
\* faulty variant: the root is taken of |a^2 - e^2|
EllipseBAbs == Sqrt(RAbs(EllipseBB))

\* b = Math.sqrt(a * a - e * e)
EllipseB == Sqrt(EllipseBB)

\* the matrix createEllipse.polarForm multiplies from both sides
EllipseInner(mx, my, a, aa, bb) ==
    << <<RAdd(RAdd(R(-1), RDiv(RMul(mx, mx), RMul(a, a))), RDiv(RMul(my, my), bb)),
         RDiv(RNeg(mx), aa), RDiv(RNeg(mx), bb)>>,
       <<RDiv(RNeg(mx), aa), RDiv(R(1), aa), R(0)>>,
       <<RDiv(RNeg(my), bb), R(0), RDiv(R(1), bb)>> >>

EllipseQuadraticForm(rot) ==
    Only({ matMatMult(transpose(tm),
               matMatMult(EllipseInner(m[1], m[2], a, RMul(a, a), EllipseBB), tm)) :
             m \in {Midpoint(F)}, a \in {EllipseA},
             tm \in {transformMat(rot, Midpoint(F)[1], Midpoint(F)[2])} })

\* faulty variant: the rotation is taken from the foci as they are now
EllipseVectorLiveRotation(rot, phi) ==
    matVecMult(transformFunc(F),
               <<R(1), RMul(EllipseA, Cos(phi)), RMul(EllipseB, Sin(phi))>>)

\* the vector createEllipse.polarForm returns
EllipseVector(rot, phi) ==
    matVecMult(rot, <<R(1), RMul(EllipseA, Cos(phi)), RMul(EllipseB, Sin(phi))>>)

\* a, e, b, bb of createHyperbola.polarForm, read on every call
HyperbolaA == RMul(axis, Q(1, 2))
HyperbolaE == RMul(Dist(F[2], F[1]), Q(1, 2))
HyperbolaB ==
    Sqrt(RAdd(RMul(RNeg(HyperbolaA), HyperbolaA), RMul(HyperbolaE, HyperbolaE)))
HyperbolaBB == RMul(HyperbolaB, HyperbolaB)

HyperbolaInner(mx, my, aa, bb) ==
    << <<RAdd(RAdd(R(-1), RDiv(RMul(mx, mx), aa)), RDiv(RMul(my, my), bb)),
         RDiv(RNeg(mx), aa), RDiv(my, bb)>>,
       <<RDiv(RNeg(mx), aa), RDiv(R(1), aa), R(0)>>,
       <<RDiv(my, bb), R(0), RDiv(R(-1), bb)>> >>

HyperbolaQuadraticForm(rot) ==
    Only({ matMatMult(transpose(tm),
               matMatMult(HyperbolaInner(m[1], m[2], RMul(a, a), bb), tm)) :
             m \in {Midpoint(F)}, a \in {HyperbolaA}, bb \in {HyperbolaBB},
             tm \in {transformMat(rot, Midpoint(F)[1], Midpoint(F)[2])} })

HyperbolaVector(rot, phi) ==
    matVecMult(rot, <<R(1), RDiv(HyperbolaA, Cos(phi)), RMul(HyperbolaB, Tan(phi))>>)

(***************************************************************************)
(* createParabola.                                                         *)
(***************************************************************************)
\* Geometry.meetLineLine(l1, l2, 0, board).usrCoords: the intersection of two
\* lines, normalised to a first coordinate of 1
meetLineLine(l1, l2) ==
    LET s == crossProduct(l1, l2)
    IN  <<R(1), RDiv(s[2], s[1]), RDiv(s[3], s[1])>>

\* the point M: the foot of the perpendicular from the focus F1 to l
ParabolaM ==
    LET v == crossProduct(<<R(0), l[2], l[3]>>, usrCoords(F1))
        u == meetLineLine(v, l)
    IN  <<u[2], u[3]>>

\* l.getSlope()
getSlope(line) ==
    IF line[3] = R(0) THEN Infinity ELSE RDiv(RNeg(line[2]), line[3])

\* <<cos(beta), sin(beta)>> for beta = Math.atan(s)
CosSinAtan(s) ==
    IF s = Infinity THEN <<R(0), R(1)>>
    ELSE LET len == Sqrt(RAdd(R(1), RMul(s, s)))
         IN  <<RDiv(R(1), len), RDiv(s, len)>>

\* transformFunc of createParabola
ParabolaTransformFunc ==
    LET m    == ParabolaM
        cs0  == CosSinAtan(getSlope(l))
        x    == RMul(RAdd(m[1], F1[1]), Q(1, 2))
        y    == RMul(RAdd(m[2], F1[2]), Q(1, 2))
        flip == \/ RLt(RSub(F1[2], m[2]), R(0))
                \/ (F1[2] = m[2] /\ RGt(F1[1], m[1]))
        co   == IF flip THEN RNeg(cs0[1]) ELSE cs0[1]
        si   == IF flip THEN RNeg(cs0[2]) ELSE cs0[2]
    IN  << <<R(1), R(0), R(0)>>,
           <<RAdd(RMul(x, RSub(R(1), co)), RMul(y, si)), co, RNeg(si)>>,
           <<RSub(RMul(y, RSub(R(1), co)), RMul(x, si)), si, co>> >>

\* e, a, b of createParabola.polarForm, read on every call
ParabolaE == RMul(Dist(ParabolaM, F1), Q(1, 2))
ParabolaA == RMul(RAdd(ParabolaM[1], F1[1]), Q(1, 2))
ParabolaB == RMul(RAdd(ParabolaM[2], F1[2]), Q(1, 2))

ParabolaInner(a, b, e) ==
    LET e4 == RMul(e, R(4))
    IN  << <<RSub(RMul(RNeg(b), e4), RMul(a, a)), a, RMul(R(2), e)>>,
           <<a, R(-1), R(0)>>,
           <<RMul(R(2), e), R(0), R(0)>> >>

ParabolaQuadraticForm(rot) ==
    Only({ matMatMult(transpose(tm), matMatMult(ParabolaInner(a, b, e), tm)) :
             a \in {ParabolaA}, b \in {ParabolaB}, e \in {ParabolaE},
             tm \in {transformMat(rot, ParabolaA, ParabolaB)} })

\* the vector createParabola.polarForm returns, for the parameter t
ParabolaVector(rot, t) ==
    Only({ matVecMult(rot, <<e4, RMul(e4, RAdd(R(t), ParabolaA)),
                             RAdd(R(t * t), RMul(ParabolaB, e4))>>) :
             e4 \in {RMul(ParabolaE, R(4))} })

(***************************************************************************)
(* createConic.                                                            *)
(***************************************************************************)
givenByPoints == family = "conic5"

\* faulty variant: parents[4] and parents[5] change places
definingMatSwapped(i, j) ==
    CASE i = 1 /\ j = 1 -> R(parents[3])
      [] i = 1 /\ j = 2 -> R(parents[6])
      [] i = 1 /\ j = 3 -> R(parents[5])
      [] i = 2 /\ j = 2 -> R(parents[1])
      [] i = 2 /\ j = 3 -> R(parents[4])
      [] i = 3 /\ j = 3 -> R(parents[2])

\* definingMat[i][j](), for j >= i: the positions the six parents fill
definingMat(i, j) ==
    CASE i = 1 /\ j = 1 -> R(parents[3])
      [] i = 1 /\ j = 2 -> R(parents[5])
      [] i = 1 /\ j = 3 -> R(parents[6])
      [] i = 2 /\ j = 2 -> R(parents[1])
      [] i = 2 /\ j = 3 -> R(parents[4])
      [] i = 3 /\ j = 3 -> R(parents[2])

\* sym(A) = A + A^t: the upper triangle is summed, then copied below
sym(A) ==
    LET up == [i \in I3 |-> [j \in I3 |->
                  IF j >= i THEN RAdd(A[i][j], A[j][i]) ELSE A[i][j]]]
    IN  [i \in I3 |-> [j \in I3 |-> IF j < i THEN up[j][i] ELSE up[i][j]]]

\* degconic(v, w) = sym(v * w^t)
degconic(v, w) == sym([i \in I3 |-> [j \in I3 |-> RMul(v[i], w[j])]])

\* faulty variant: the two degenerate conics are added
fitConicSum(A, B, p) ==
    LET pBp == innerProduct(p, matVecMult(B, p))
        pAp == innerProduct(p, matVecMult(A, p))
    IN  [i \in I3 |-> [j \in I3 |->
            RAdd(RMul(pBp, A[i][j]), RMul(pAp, B[i][j]))]]

\* fitConic(A, B, p) = (p^t*B*p)*A - (p^t*A*p)*B
fitConic(A, B, p) ==
    LET pBp == innerProduct(p, matVecMult(B, p))
        pAp == innerProduct(p, matVecMult(A, p))
    IN  [i \in I3 |-> [j \in I3 |->
            RSub(RMul(pBp, A[i][j]), RMul(pAp, B[i][j]))]]

\* faulty variant: the five-point form is added to what M held
ConicMAccumulates(old) ==
    IF givenByPoints
    THEN LET p  == [i \in 1..5 |-> usrCoords(points[i])]
             c1 == degconic(crossProduct(p[1], p[2]), crossProduct(p[3], p[4]))
             c2 == degconic(crossProduct(p[1], p[3]), crossProduct(p[2], p[4]))
             m  == fitConic(c1, c2, p[5])
         IN  [i \in I3 |-> [j \in I3 |-> RAdd(old[i][j], m[i][j])]]
    ELSE [i \in I3 |-> [j \in I3 |->
             IF j >= i THEN definingMat(i, j) ELSE definingMat(j, i)]]

\* the matrix a recomputing polarForm leaves in M; old is M before the call,
\* which the six-coefficient loop overwrites entry by entry
ConicM(old) ==
    IF givenByPoints
    THEN LET p  == [i \in 1..5 |-> usrCoords(points[i])]
             c1 == degconic(crossProduct(p[1], p[2]), crossProduct(p[3], p[4]))
             c2 == degconic(crossProduct(p[1], p[3]), crossProduct(p[2], p[4]))
         IN  fitConic(c1, c2, p[5])
    ELSE LET up == [i \in I3 |-> [j \in I3 |->
                       IF j >= i THEN definingMat(i, j) ELSE old[i][j]]]
         IN  [i \in I3 |-> [j \in I3 |-> IF j < i THEN up[j][i] ELSE up[i][j]]]

IsDiagonal(m) == \A i \in I3 : \A j \in I3 : i # j => m[i][j] = R(0)

\* Numerics.Jacobi(M) = [eigenvalues (a diagonal matrix), eigenvectors].  A
\* diagonal matrix is its own decomposition; for any other matrix the result
\* is the one the state variable solver holds
Jacobi(m) == IF IsDiagonal(m) THEN <<m, Identity>> ELSE solver

\* faulty variant: the first eigenvector (column 0 of e[1]) is negated with
\* the eigenvalues
ScaleAndFlipEigenvector(e) ==
    IF RLt(e[1][1][1], R(0))
    THEN << [i \in I3 |-> [j \in I3 |->
                IF i = j THEN RMul(e[1][i][j], R(-1)) ELSE e[1][i][j]]],
            [i \in I3 |-> [j \in I3 |->
                IF j = 1 THEN RNeg(e[2][i][j]) ELSE e[2][i][j]]] >>
    ELSE e

\* faulty variant: only the first eigenvalue is negated
ScaleFirstEigenvalue(e) ==
    IF RLt(e[1][1][1], R(0))
    THEN << [i \in I3 |-> [j \in I3 |->
                IF i = 1 /\ j = 1 THEN RMul(e[1][i][j], R(-1)) ELSE e[1][i][j]]], e[2] >>
    ELSE e

\* "Scale the Eigenvalues such that the first Eigenvalue is positive"
ScaleEigenvalues(e) ==
    IF RLt(e[1][1][1], R(0))
    THEN << [i \in I3 |-> [j \in I3 |->
                IF i = j THEN RMul(e[1][i][j], R(-1)) ELSE e[1][i][j]]], e[2] >>
    ELSE e

\* <<a, b, c>> as polarForm derives them from the scaled eigenvalues
ConicAxes(e) ==
    << Sqrt(RAbs(e[1][2][2])), Sqrt(RAbs(e[1][3][3])), Sqrt(RAbs(e[1][1][1])) >>

\* faulty variant: the third branch is a plain else
ConicBranchElse(e) ==
    IF RLe(e[1][2][2], R(0)) /\ RLe(e[1][3][3], R(0)) THEN 1
    ELSE IF RLe(e[1][2][2], R(0)) /\ RGt(e[1][3][3], R(0)) THEN 2
    ELSE 3

\* which of the three branches of polarForm assigns v (0: none)
ConicBranch(e) ==
    IF RLe(e[1][2][2], R(0)) /\ RLe(e[1][3][3], R(0)) THEN 1
    ELSE IF RLe(e[1][2][2], R(0)) /\ RGt(e[1][3][3], R(0)) THEN 2
    ELSE IF RLt(e[1][3][3], R(0)) THEN 3
    ELSE 0

\* v before "Normalize"; Undefined when no branch assigns it
ConicV(e, rot, ax, phi) ==
    LET a == ax[1]
        b == ax[2]
        c == ax[3]
        br == ConicBranch(e)
    IN  IF br = 1
        THEN matVecMult(rot, <<RDiv(R(1), c), RDiv(Cos(phi), a), RDiv(Sin(phi), b)>>)
        ELSE IF br = 2
        THEN matVecMult(rot, <<RDiv(Cos(phi), c), RDiv(R(1), a), RDiv(Sin(phi), b)>>)
        ELSE IF br = 3
        THEN matVecMult(rot, <<RDiv(Sin(phi), c), RDiv(Cos(phi), a), RDiv(R(1), b)>>)
        ELSE Undefined

\* "Normalize": v[1] /= v[0]; v[2] /= v[0]; v[0] = 1.0
ConicNormalize(v) == <<R(1), RDiv(v[2], v[1]), RDiv(v[3], v[1])>>

\* faulty variant: the second and third coordinate change places
ConicMidpointSwapped(m) ==
    << RSub(RMul(m[2][2], m[3][3]), RMul(m[2][3], m[2][3])),
       RSub(RMul(m[1][2], m[2][3]), RMul(m[2][2], m[1][3])),
       RSub(RMul(m[2][3], m[1][3]), RMul(m[3][3], m[1][2])) >>

\* the function of curve.midpoint of createConic, applied to curve.quadraticform
ConicMidpoint(m) ==
    << RSub(RMul(m[2][2], m[3][3]), RMul(m[2][3], m[2][3])),
       RSub(RMul(m[2][3], m[1][3]), RMul(m[3][3], m[1][2])),
       RSub(RMul(m[1][2], m[2][3]), RMul(m[2][2], m[1][3])) >>

(***************************************************************************)
(* polarForm(phi, suspendUpdate) of the four constructors.  Each operator  *)
(* gives the closure state the call leaves and the vector it returns; v is *)
(* Undefined when the call throws.                                         *)
(***************************************************************************)
\* faulty variant: the flag is ignored and every call recomputes
RecomputesAlways(suspendUpdate) == TRUE

\* if (!suspendUpdate) { ... }
Recomputes(suspendUpdate) == ~suspendUpdate

Out(rot, qf, m, e, ax, v) ==
    [rot |-> rot, qf |-> qf, M |-> m, eigen |-> e, abc |-> ax, v |-> v]

\* faulty variant: the rotation is computed by the first recomputing call only
EllipsePolarFormSnapshot(phi, suspendUpdate) ==
    Only({ Out(rot,
               IF Recomputes(suspendUpdate) THEN EllipseQuadraticForm(rot) ELSE quadraticform,
               M, eigen, abc,
               IF rot = Undefined THEN Undefined ELSE EllipseVector(rot, phi)) :
             rot \in {IF Recomputes(suspendUpdate) /\ rotationMatrix = Undefined
                      THEN transformFunc(F) ELSE rotationMatrix} })

EllipsePolarForm(phi, suspendUpdate) ==
    Only({ Out(rot,
               IF Recomputes(suspendUpdate) THEN EllipseQuadraticForm(rot) ELSE quadraticform,
               M, eigen, abc,
               IF rot = Undefined THEN Undefined ELSE EllipseVector(rot, phi)) :
             rot \in {IF Recomputes(suspendUpdate) THEN transformFunc(F)
                       ELSE rotationMatrix} })

\* faulty variant: rotationMatrix starts as the identity, as in createConic
HyperbolaPolarFormIdentity(phi, suspendUpdate) ==
    Only({ Out(rot,
               IF Recomputes(suspendUpdate) THEN HyperbolaQuadraticForm(rot) ELSE quadraticform,
               M, eigen, abc,
               IF rot = Undefined THEN Undefined ELSE HyperbolaVector(rot, phi)) :
             rot \in {IF Recomputes(suspendUpdate) THEN transformFunc(F)
                       ELSE IF rotationMatrix = Undefined THEN Identity
                       ELSE rotationMatrix} })

HyperbolaPolarForm(phi, suspendUpdate) ==
    Only({ Out(rot,
               IF Recomputes(suspendUpdate) THEN HyperbolaQuadraticForm(rot) ELSE quadraticform,
               M, eigen, abc,
               IF rot = Undefined THEN Undefined ELSE HyperbolaVector(rot, phi)) :
             rot \in {IF Recomputes(suspendUpdate) THEN transformFunc(F)
                       ELSE rotationMatrix} })

ParabolaPolarForm(t, suspendUpdate) ==
    Only({ Out(rot,
               IF Recomputes(suspendUpdate) THEN ParabolaQuadraticForm(rot) ELSE quadraticform,
               M, eigen, abc,
               IF rot = Undefined THEN Undefined ELSE ParabolaVector(rot, t)) :
             rot \in {IF Recomputes(suspendUpdate) THEN ParabolaTransformFunc
                       ELSE rotationMatrix} })

ConicRecompute ==
    Only({ Only({ [M |-> m, qf |-> m, eigen |-> e, rot |-> e[2], abc |-> ConicAxes(e)] :
                    e \in {ScaleEigenvalues(Jacobi(m))} }) :
             m \in {ConicM(M)} })

ConicPolarForm(phi, suspendUpdate) ==
    Only({ Only({ Out(s.rot, s.qf, s.M, s.eigen, s.abc,
                      IF v = Undefined THEN Undefined ELSE ConicNormalize(v)) :
                    v \in {IF s.eigen = Undefined THEN Undefined
                           ELSE ConicV(s.eigen, s.rot, s.abc, phi)} }) :
             s \in {IF Recomputes(suspendUpdate) THEN ConicRecompute
                    ELSE [M |-> M, qf |-> quadraticform, eigen |-> eigen,
                          rot |-> rotationMatrix, abc |-> abc]} })

polarForm(phi, suspendUpdate) ==
    CASE family = "ellipse"   -> EllipsePolarForm(phi, suspendUpdate)
      [] family = "hyperbola" -> HyperbolaPolarForm(phi, suspendUpdate)
      [] family = "parabola"  -> ParabolaPolarForm(phi, suspendUpdate)
      [] OTHER                -> ConicPolarForm(phi, suspendUpdate)

\* the scalars polarForm of the ellipse, the hyperbola and the parabola reads
\* from the inputs on every call, recomputing or not
Scalars ==
    CASE family = "ellipse"   -> <<EllipseA, EllipseB>>
      [] family = "hyperbola" -> <<HyperbolaA, HyperbolaB>>
      [] family = "parabola"  -> <<ParabolaE, ParabolaA, ParabolaB>>
      [] OTHER                -> Undefined

(***************************************************************************)
(* The inputs the model enumerates.                                        *)
(***************************************************************************)
Mids == {<<0, 0>>, <<1, 1>>} \cup {<<k, 0>> : k \in 1..MaxMid}

\* half of the vector from F[0] to F[1]; each has length 5
HalfAxes == {<<3, 4>>, <<0, 5>>, <<-3, -4>>}

\* the foci with midpoint m and half axis h
Foci(m, h) == <<Pt(m[1] - h[1], m[2] - h[2]), Pt(m[1] + h[1], m[2] + h[2])>>

\* every midpoint with the oblique axis, and every axis about (1, 0)
FociSet == {Foci(m, <<3, 4>>) : m \in Mids} \cup {Foci(<<1, 0>>, h) : h \in HalfAxes}

\* values of majorAxis(): with a focal distance of 10 these give an ellipse
\* (26), a hyperbola (6), and the boundary case a = e (10)
AxisSet == {R(6), R(10), R(26)}

FocusSet == {Pt(m[1], m[2]) : m \in Mids}

\* l.stdform = [c, a, b] for the line a*x + b*y + c = 0
DirectrixSet == { <<R(-1), R(0), R(1)>>, <<R(1), R(1), R(0)>>, <<R(5), R(3), R(4)>> }

FivePointSet == { <<p0, Pt(1, 2), Pt(2, 0), Pt(0, 0), p4>> :
                    p0 \in {Pt(1, 5), Pt(3, 1)},
                    p4 \in {Pt(-1, 5)} \cup FocusSet }

\* the six parents a00, a11, a22, a01, a02, a12: diagonal forms for each case
\* of polarForm (a22 = -1 makes the first eigenvalue negative), and two forms
\* with mixed terms
CoefSet == { <<1, 1, -1, 0, 0, 0>>, <<1, -1, -1, 0, 0, 0>>, <<-1, 1, -1, 0, 0, 0>>,
             <<-1, -1, -1, 0, 0, 0>>, <<0, 1, -1, 0, 0, 0>>, <<-1, 0, -1, 0, 0, 0>>,
             <<-1, -1, 1, 0, 0, 0>>, <<1, 1, 1, 0, 0, 0>>,
             <<1, 1, -1, 1, 2, 3>>, <<-1, 1, 1, 3, 1, 2>> }

Diag(x, y, z) == << <<R(x), R(0), R(0)>>, <<R(0), R(y), R(0)>>, <<R(0), R(0), R(z)>> >>

\* a rotation by the angle with cosine 3/5 and sine 4/5 in the last two axes
Rot34 == << <<R(1), R(0), R(0)>>, <<R(0), Q(3, 5), Q(-4, 5)>>,
            <<R(0), Q(4, 5), Q(3, 5)>> >>

\* results of the eigensolver on a non-diagonal matrix
SolverSet == { <<Diag(-4, 1, 1), Identity>>, <<Diag(4, -1, 1), Rot34>> }

Families == {"ellipse", "hyperbola", "parabola", "conic5", "conic6"}

(***************************************************************************)
(* The constructors: the checks of the parents array and the parameter     *)
(* range handed to the curve.  A parent is described by what the checks    *)
(* can see of it: a JXG.Point, an array of coordinates, a one-letter point *)
(* name, a function returning a point, a number, a function returning a    *)
(* number, a JXG.Line.  parents[i] beyond the array is undefined.          *)
(***************************************************************************)
ParentKinds == {"point", "coords", "name", "pointFn", "number", "numberFn", "line"}

\* typeof parents[i], as the error messages print it
TypeOf(k) ==
    CASE k \in {"point", "coords", "line"} -> "object"
      [] k = "name"                        -> "string"
      [] k \in {"pointFn", "numberFn"}     -> "function"
      [] k = "number"                      -> "number"
      [] OTHER                             -> "undefined"

\* parents[i - 1]
Parent(kinds, i) == IF i <= Len(kinds) THEN kinds[i] ELSE "undefined"

\* a start or end parameter: not supplied, or the number pi * PI + num
NotSupplied == [given |-> FALSE, pi |-> R(0), num |-> R(0)]
Number(x) == [given |-> TRUE, pi |-> R(0), num |-> x]
PiTimes(x) == [given |-> TRUE, pi |-> x, num |-> R(0)]

\* Type.exists(v)
Exists(v) == v.given

\* what a constructor call ends in: error is "none" when the curve is
\* returned, "Error" for a thrown Error (types: the typeof strings its message
\* prints, shapes: the message lists the possible parent types) and
\* "TypeError" for a property read of undefined
Constructed(from, to) ==
    [error |-> "none", types |-> << >>, shapes |-> FALSE, curve |-> TRUE,
     range |-> <<from, to>>]
ParentTypeError(types) ==
    [error |-> "Error", types |-> types, shapes |-> TRUE, curve |-> FALSE,
     range |-> <<NotSupplied, NotSupplied>>]
ParameterCountError ==
    [error |-> "Error", types |-> << >>, shapes |-> FALSE, curve |-> FALSE,
     range |-> <<NotSupplied, NotSupplied>>]
PropertyOfUndefined ==
    [error |-> "TypeError", types |-> << >>, shapes |-> FALSE, curve |-> FALSE,
     range |-> <<NotSupplied, NotSupplied>>]
NoOutcome ==
    [error |-> "pending", types |-> << >>, shapes |-> FALSE, curve |-> FALSE,
     range |-> <<NotSupplied, NotSupplied>>]

\* the chain of tests a point parent goes through: parents[i].length > 1,
\* Type.isPoint, function returning a point, Type.isString, else throw
PointTest(k) ==
    IF k = "undefined" THEN "TypeError"
    ELSE IF k \in {"coords", "point", "pointFn", "name"} THEN "ok"
    ELSE "reject"

\* the third parent of createEllipse / createHyperbola: a number, a function
\* returning a number, or a point in one of the four ways
AxisTest(k) ==
    IF k \in {"number", "numberFn"} THEN "ok" ELSE PointTest(k)

\* createEllipse and createHyperbola up to the creation of the curve
CreateEllipse(kinds, from, to) ==
    LET p1 == Parent(kinds, 1)
        p2 == Parent(kinds, 2)
        p3 == Parent(kinds, 3)
        two == <<TypeOf(p1), TypeOf(p2)>>
    IN  IF PointTest(p1) = "TypeError" THEN PropertyOfUndefined
        ELSE IF PointTest(p1) = "reject" THEN ParentTypeError(two)
        ELSE IF PointTest(p2) = "TypeError" THEN PropertyOfUndefined
        ELSE IF PointTest(p2) = "reject" THEN ParentTypeError(two)
        ELSE IF AxisTest(p3) = "TypeError" THEN PropertyOfUndefined
        ELSE IF AxisTest(p3) = "reject" THEN ParentTypeError(Append(two, TypeOf(p3)))
        ELSE Constructed(IF Exists(from) THEN from ELSE PiTimes(Q(-10001, 10000)),
                         IF Exists(to) THEN to ELSE PiTimes(Q(10001, 10000)))

\* createParabola up to the creation of the curve; parents[1] is not tested
CreateParabola(kinds, from, to) ==
    LET p1 == Parent(kinds, 1)
        p2 == Parent(kinds, 2)
    IN  IF PointTest(p1) = "TypeError" THEN PropertyOfUndefined
        ELSE IF PointTest(p1) = "reject" THEN ParentTypeError(<<TypeOf(p1), TypeOf(p2)>>)
        ELSE Constructed(IF Exists(from) THEN from ELSE Number(R(-10)),
                         IF Exists(to) THEN to ELSE Number(R(10)))

\* createConic up to the creation of the curve: the count of the parents,
\* then, for five parents, the test of each; six parents are not tested
CreateConic(kinds) ==
    IF Len(kinds) \notin {5, 6} THEN ParameterCountError
    ELSE IF Len(kinds) = 5 /\ \E i \in 1..5 : PointTest(kinds[i]) # "ok"
    THEN LET i == CHOOSE i \in 1..5 :
                      /\ PointTest(kinds[i]) # "ok"
                      /\ \A j \in 1..(i - 1) : PointTest(kinds[j]) = "ok"
         IN  ParentTypeError(<<TypeOf(kinds[i])>>)
    ELSE Constructed(Number(R(0)), PiTimes(R(2)))

Create(c) ==
    CASE c.ctor \in {"createEllipse", "createHyperbola"} ->
                CreateEllipse(c.kinds, c.from, c.to)
      [] c.ctor = "createParabola" -> CreateParabola(c.kinds, c.from, c.to)
      [] OTHER                     -> CreateConic(c.kinds)

\* the call that built the curve of each family of the evaluation model
DefaultCall(fam) ==
    CASE fam = "ellipse"   -> [ctor |-> "createEllipse", kinds |-> <<"point", "point", "numberFn">>,
                               from |-> NotSupplied, to |-> NotSupplied]
      [] fam = "hyperbola" -> [ctor |-> "createHyperbola", kinds |-> <<"point", "point", "numberFn">>,
                               from |-> NotSupplied, to |-> NotSupplied]
      [] fam = "parabola"  -> [ctor |-> "createParabola", kinds |-> <<"point", "line">>,
                               from |-> NotSupplied, to |-> NotSupplied]
      [] fam = "conic5"    -> [ctor |-> "createConic", kinds |-> [i \in 1..5 |-> "point"],
                               from |-> NotSupplied, to |-> NotSupplied]
      [] OTHER             -> [ctor |-> "createConic", kinds |-> [i \in 1..6 |-> "numberFn"],
                               from |-> NotSupplied, to |-> NotSupplied]

(***************************************************************************)
(* Construction.                                                           *)
(***************************************************************************)
IsConic == family \in {"conic5", "conic6"}

Init ==
    /\ family \in Families
    /\ F \in (IF family \in {"ellipse", "hyperbola"} THEN FociSet
              ELSE {<<Pt(-5, 0), Pt(5, 0)>>})
    /\ axis \in (IF family \in {"ellipse", "hyperbola"} THEN AxisSet ELSE {R(26)})
    /\ F1 \in (IF family = "parabola" THEN FocusSet ELSE {Pt(0, 0)})
    /\ l \in (IF family = "parabola" THEN DirectrixSet ELSE {<<R(1), R(0), R(1)>>})
    /\ points \in (IF family = "conic5" THEN FivePointSet
                   ELSE {<<Pt(1, 5), Pt(1, 2), Pt(2, 0), Pt(0, 0), Pt(-1, 5)>>})
    /\ parents \in (IF family = "conic6" THEN CoefSet ELSE {<<1, 1, -1, 0, 0, 0>>})
    /\ solver \in (IF IsConic THEN SolverSet ELSE {<<Diag(-4, 1, 1), Identity>>})
    /\ rotationMatrix = (IF IsConic THEN Identity ELSE Undefined)
    /\ quadraticform = Undefined
    /\ M = (IF IsConic THEN Identity ELSE Undefined)
    /\ eigen = Undefined
    /\ abc = Undefined
    /\ call = NoCall
    /\ rec = [set |-> FALSE, phi |-> 0, v |-> Undefined, scalars |-> Undefined,
              cache |-> cache]
    /\ changed = FALSE
    /\ construction = [call |-> DefaultCall(family), done |-> TRUE,
                       outcome |-> Create(DefaultCall(family))]

(***************************************************************************)
(* curve.X(phi, suspendUpdate) and curve.Y(phi, suspendUpdate).            *)
(***************************************************************************)
Evaluate(op, phi, suspendUpdate) ==
    \E out \in {polarForm(phi, suspendUpdate)} :
    LET thr == out.v = Undefined
    IN  /\ rotationMatrix' = out.rot
        /\ quadraticform' = out.qf
        /\ M' = out.M
        /\ eigen' = out.eigen
        /\ abc' = out.abc
        /\ call' = [op |-> op, phi |-> phi, suspendUpdate |-> suspendUpdate,
                    stale |-> changed /\ suspendUpdate,
                    again |-> rec.set /\ changed /\ ~suspendUpdate,
                    threw |-> thr, v |-> out.v,
                    ret |-> IF thr THEN NaN
                            ELSE IF op = "X" THEN out.v[2] ELSE out.v[3]]
        /\ rec' = IF suspendUpdate THEN rec
                  ELSE [set |-> TRUE, phi |-> phi, v |-> out.v, scalars |-> Scalars,
                        cache |-> cache']
        /\ changed' = (changed /\ suspendUpdate)
        /\ UNCHANGED <<construction, family, F, axis, F1, l, points, parents, solver>>

X(phi, suspendUpdate) == Evaluate("X", phi, suspendUpdate)

Y(phi, suspendUpdate) == Evaluate("Y", phi, suspendUpdate)

(***************************************************************************)
(* The live inputs change under the curve (a point is dragged, a function  *)
(* parent returns something else).                                         *)
(***************************************************************************)
MoveFoci(f) ==
    /\ family \in {"ellipse", "hyperbola"}
    /\ f # F
    /\ F' = f
    /\ changed' = TRUE
    /\ call' = NoCall
    /\ UNCHANGED <<construction, family, axis, F1, l, points, parents, solver, cache, rec>>

SetMajorAxis(x) ==
    /\ family \in {"ellipse", "hyperbola"}
    /\ x # axis
    /\ axis' = x
    /\ changed' = TRUE
    /\ call' = NoCall
    /\ UNCHANGED <<construction, family, F, F1, l, points, parents, solver, cache, rec>>

MoveFocus(p) ==
    /\ family = "parabola"
    /\ p # F1
    /\ F1' = p
    /\ changed' = TRUE
    /\ call' = NoCall
    /\ UNCHANGED <<construction, family, F, axis, l, points, parents, solver, cache, rec>>

MoveDirectrix(d) ==
    /\ family = "parabola"
    /\ d # l
    /\ l' = d
    /\ changed' = TRUE
    /\ call' = NoCall
    /\ UNCHANGED <<construction, family, F, axis, F1, points, parents, solver, cache, rec>>

MovePoints(ps) ==
    /\ family = "conic5"
    /\ ps # points
    /\ points' = ps
    /\ changed' = TRUE
    /\ call' = NoCall
    /\ UNCHANGED <<construction, family, F, axis, F1, l, parents, solver, cache, rec>>

SetCoefficients(cs) ==
    /\ family = "conic6"
    /\ cs # parents
    /\ parents' = cs
    /\ changed' = TRUE
    /\ call' = NoCall
    /\ UNCHANGED <<construction, family, F, axis, F1, l, points, solver, cache, rec>>

Next ==
    \/ \E phi \in Params, su \in BOOLEAN : X(phi, su)
    \/ \E phi \in Params, su \in BOOLEAN : Y(phi, su)
    \/ \E f \in FociSet : MoveFoci(f)
    \/ \E x \in AxisSet : SetMajorAxis(x)
    \/ \E p \in FocusSet : MoveFocus(p)
    \/ \E d \in DirectrixSet : MoveDirectrix(d)
    \/ \E ps \in FivePointSet : MovePoints(ps)
    \/ \E cs \in CoefSet : SetCoefficients(cs)

Spec == Init /\ [][Next]_vars

(***************************************************************************)
(* The constructors on parents of every shape: a call is drawn, then made. *)
(***************************************************************************)
\* start and end parameters a caller supplies
RangeArgs == {NotSupplied, Number(R(-5)), Number(R(5))}

\* arrays of n parents of any kind
ParentArrays(n) == [1..n -> ParentKinds]

\* arrays of n parents, all of one kind but at most one
OneOff(n, base) ==
    { [i \in 1..n |-> IF i = p THEN k ELSE base] : p \in 1..n, k \in ParentKinds }

Call(c, ks, f, t) == [ctor |-> c, kinds |-> ks, from |-> f, to |-> t]

CallSet ==
    { Call(c, ks, NotSupplied, NotSupplied) :
        c \in {"createEllipse", "createHyperbola"}, ks \in ParentArrays(2) }
    \cup { Call(c, ks, r[1], r[2]) :
        c \in {"createEllipse", "createHyperbola"}, ks \in ParentArrays(3),
        r \in RangeArgs \X RangeArgs }
    \cup { Call("createParabola", ks, NotSupplied, NotSupplied) : ks \in ParentArrays(1) }
    \cup { Call("createParabola", ks, r[1], r[2]) :
        ks \in ParentArrays(2), r \in RangeArgs \X RangeArgs }
    \cup { Call("createConic", ks, NotSupplied, NotSupplied) :
        ks \in {[i \in 1..4 |-> "point"], [i \in 1..7 |-> "number"]}
               \cup OneOff(5, "point") \cup OneOff(6, "number") }

\* the family a call is meant to build
FamilyOf(c) ==
    CASE c.ctor = "createEllipse"   -> "ellipse"
      [] c.ctor = "createHyperbola" -> "hyperbola"
      [] c.ctor = "createParabola"  -> "parabola"
      [] OTHER -> IF Len(c.kinds) <= 5 THEN "conic5" ELSE "conic6"

InitCreate ==
    /\ construction \in {[call |-> c, done |-> FALSE, outcome |-> NoOutcome] : c \in CallSet}
    /\ family = FamilyOf(construction.call)
    /\ F = <<Pt(-5, 0), Pt(5, 0)>>
    /\ axis = R(26)
    /\ F1 = Pt(0, 0)
    /\ l = <<R(1), R(0), R(1)>>
    /\ points = <<Pt(1, 5), Pt(1, 2), Pt(2, 0), Pt(0, 0), Pt(-1, 5)>>
    /\ parents = <<1, 1, -1, 0, 0, 0>>
    /\ solver = <<Diag(-4, 1, 1), Identity>>
    /\ rotationMatrix = (IF IsConic THEN Identity ELSE Undefined)
    /\ quadraticform = Undefined
    /\ M = (IF IsConic THEN Identity ELSE Undefined)
    /\ eigen = Undefined
    /\ abc = Undefined
    /\ call = NoCall
    /\ rec = [set |-> FALSE, phi |-> 0, v |-> Undefined, scalars |-> Undefined,
              cache |-> cache]
    /\ changed = FALSE

\* board.create('ellipse' | 'hyperbola' | 'parabola' | 'conic', parents)
CreateCurve ==
    /\ ~construction.done
    /\ construction' = [construction EXCEPT !.done = TRUE,
                                            !.outcome = Create(construction.call)]
    /\ UNCHANGED <<family, inputs, cache, solver, call, rec, changed>>

NextCreate == CreateCurve

SpecCreate == InitCreate /\ [][NextCreate]_vars

(***************************************************************************)
(* Properties.                                                             *)
(***************************************************************************)
\* the last step was a call of curve.X or curve.Y
Called == call.op # "none"

\* ... with suspendUpdate = false
Recomputed == Called /\ ~call.suspendUpdate

\* ... with suspendUpdate = true
Reused == Called /\ call.suspendUpdate

\* the point (1, x, y) the last call computed
Returned == call.v

\* C1: in every family, quadraticform, rotationMatrix, eigen, a, b, c (and M)
\* are at all times exactly what the most recent call with suspendUpdate =
\* false left them (the values of construction before the first such call):
\* calls with suspendUpdate = true and changes of the inputs leave them alone.
C1_CacheOnlyChangedByRecompute == cache = rec.cache

\* a call with suspendUpdate = true returned after the inputs had changed
C1_Witness ==
    /\ Reused /\ call.stale /\ ~call.threw /\ rec.set
    /\ IsConic /\ quadraticform # Undefined

\* the quadratic form the current inputs determine, computed from them alone
FreshQuadraticForm ==
    CASE family = "ellipse"   -> EllipseQuadraticForm(transformFunc(F))
      [] family = "hyperbola" -> HyperbolaQuadraticForm(transformFunc(F))
      [] family = "parabola"  -> ParabolaQuadraticForm(ParabolaTransformFunc)
      [] OTHER                -> ConicM(Identity)

\* C2: after a call with suspendUpdate = false, curve.quadraticform is the
\* matrix determined by the current inputs alone, whatever the earlier inputs
\* and the earlier contents of M and rotationMatrix were.
C2_QuadraticFormFromLiveInputs ==
    Recomputed => quadraticform = FreshQuadraticForm

\* a recomputing call of the six-coefficient conic that followed an earlier
\* one and a change of the coefficients
C2_Witness ==
    /\ Recomputed /\ call.again /\ family = "conic6"
    /\ M # Identity /\ parents # <<1, 1, 1, 0, 0, 0>>
    /\ quadraticform = ConicM(Identity)

C4_Idempotent ==
    [][ (call'.op # "none" /\ rec.set /\ ~changed /\ call'.phi = rec.phi)
            => /\ call'.v = rec.v
               /\ cache' = cache ]_vars

\* a call with suspendUpdate = true that repeated the recomputing call
C4_Witness ==
    /\ Reused /\ ~call.stale /\ ~call.threw /\ call.phi = rec.phi
    /\ call.op = "Y" /\ Returned = rec.v /\ family = "conic6"

\* C5 as stated: after every recomputing call curve.quadraticform is
\* symmetric, in every family.
C5_QuadraticFormSymmetric ==
    Recomputed => IsSymmetric(quadraticform)

\* the input describes a proper ellipse (a > e) or hyperbola (a < e)
WellPosedFoci ==
    \/ family = "ellipse" /\ RGt(EllipseBB, R(0))
    \/ family = "hyperbola" /\ RGt(HyperbolaBB, R(0))

\* C6 as stated: for the ellipse and the hyperbola, the point a recomputing
\* call returns satisfies p^t * quadraticform * p = 0.
C6_PointOnQuadraticForm ==
    (Recomputed /\ WellPosedFoci) => QuadForm(quadraticform, Returned) = R(0)

\* squared distance of the point p from the line with stdform [c, a, b]
DistToLine2(p, line) ==
    LET h == RAdd(RAdd(RMul(line[2], p[1]), RMul(line[3], p[2])), line[1])
    IN  RDiv(RMul(h, h), RAdd(RMul(line[2], line[2]), RMul(line[3], line[3])))

\* the focus is not on the directrix
WellPosedParabola == family = "parabola" /\ DistToLine2(F1, l) # R(0)

\* C7 as stated: the point (X(t), Y(t)) a recomputing call of the parabola
\* returns is as far from the focus as from the directrix.
C7_ParabolaEquidistant ==
    (Recomputed /\ WellPosedParabola)
        => Dist2(<<Returned[2], Returned[3]>>, F1)
             = DistToLine2(<<Returned[2], Returned[3]>>, l)

\* q >= 0 and q * q = x, for finite q and x in lowest terms
IsRootOf(q, x) ==
    /\ IsFinite(q) /\ IsFinite(x) /\ q[1] >= 0
    /\ IF q[1] = 0 THEN x[1] = 0
       ELSE x[1] % q[1] = 0 /\ x[1] \div q[1] = q[1]
    /\ x[2] % q[2] = 0 /\ x[2] \div q[2] = q[2]

\* d0 + d1 = s for distances with squares s0 = d0^2 and s1 = d1^2 and s > 0:
\* then d1 = (s^2 + s1 - s0) / (2 * s) =: q, and conversely 0 <= q <= s with
\* q^2 = s1 gives d1 = q and d0 = s - q
SumOfDistancesIs(s0, s1, s) ==
    LET q == RDiv(RSub(RAdd(RMul(s, s), s1), s0), RMul(R(2), s))
    IN  /\ RLe(q, s)
        /\ IsRootOf(q, s1)

WellPosedEllipse == family = "ellipse" /\ RLe(EllipseE, EllipseA)

\* C8: for an ellipse with a >= e, the point p a recomputing call returns
\* satisfies distance(p, F[0]) + distance(p, F[1]) = majorAxis().
C8_EllipseFocalSum ==
    (Recomputed /\ WellPosedEllipse)
        => SumOfDistancesIs(Dist2(<<Returned[2], Returned[3]>>, F[1]),
                            Dist2(<<Returned[2], Returned[3]>>, F[2]), axis)

\* a proper ellipse with oblique foci, evaluated off its axes
C8_Witness ==
    /\ Recomputed /\ family = "ellipse" /\ RLt(EllipseE, EllipseA)
    /\ call.phi = 1 /\ F[1][1] # F[2][1] /\ Midpoint(F) # Pt(0, 0)
    /\ SumOfDistancesIs(Dist2(<<Returned[2], Returned[3]>>, F[1]),
                        Dist2(<<Returned[2], Returned[3]>>, F[2]), axis)

\* the five points of the documented example
ExamplePoints == <<Pt(1, 5), Pt(1, 2), Pt(2, 0), Pt(0, 0), Pt(-1, 5)>>

\* C9: the quadratic form a recomputing call of a five-point conic writes
\* vanishes on each of the five points; for the points of the example the
\* first homogeneous coordinate of the midpoint is not zero.
C9_FivePointsOnConic ==
    (Recomputed /\ family = "conic5")
        => /\ \A i \in 1..5 : QuadForm(quadraticform, usrCoords(points[i])) = R(0)
           /\ points = ExamplePoints => ConicMidpoint(quadraticform)[1] # R(0)

C9_Witness ==
    /\ Recomputed /\ family = "conic5" /\ points = ExamplePoints
    /\ quadraticform # Diag(0, 0, 0)
    /\ \A i \in 1..5 : QuadForm(quadraticform, usrCoords(points[i])) = R(0)
    /\ IsFinite(RDiv(ConicMidpoint(quadraticform)[2], ConicMidpoint(quadraticform)[1]))

\* the eigenvalues with all three negated
Negated(d) ==
    [i \in I3 |-> [j \in I3 |-> IF i = j THEN RNeg(d[i][j]) ELSE d[i][j]]]

\* C10: once the general conic has recomputed, eigen[0][0][0] >= 0, and
\* the eigenvalues are those the eigensolver returns for quadraticform,
\* either all three as returned or all three negated.
C10_SignNormalization ==
    (IsConic /\ eigen # Undefined)
        => /\ RLe(R(0), eigen[1][1][1])
           /\ \/ eigen[1] = Jacobi(quadraticform)[1]
              \/ eigen[1] = Negated(Jacobi(quadraticform)[1])

\* the eigensolver returned a negative first eigenvalue and two of the other sign
C10_Witness ==
    /\ Recomputed /\ IsConic
    /\ RLt(Jacobi(quadraticform)[1][1][1], R(0))
    /\ RGt(Jacobi(quadraticform)[1][2][2], R(0))
    /\ RLt(eigen[1][2][2], R(0))
    /\ RGt(eigen[1][1][1], R(0))

\* m with its first column (the eigenvector of the primary eigenvalue) negated
FlipFirst(m) == [i \in I3 |-> [j \in I3 |-> IF j = 1 THEN RNeg(m[i][j]) ELSE m[i][j]]]

\* C11 as stated: when the eigensolver returns a negative primary eigenvalue,
\* rotationMatrix holds the eigenvectors with the first one negated; otherwise
\* it holds them as returned.
C11_EigenvectorFlipped ==
    (Recomputed /\ IsConic)
        => rotationMatrix = (IF RLt(Jacobi(quadraticform)[1][1][1], R(0))
                             THEN FlipFirst(Jacobi(quadraticform)[2])
                             ELSE Jacobi(quadraticform)[2])

\* C11 amended: once the general conic has recomputed, rotationMatrix (and
\* eigen[1]) hold the eigenvectors exactly as the eigensolver returned them,
\* whatever the sign of the primary eigenvalue: only the eigenvalues are negated.
C11_EigenvectorsAsReturned ==
    (IsConic /\ eigen # Undefined)
        => /\ rotationMatrix = Jacobi(quadraticform)[2]
           /\ eigen[2] = Jacobi(quadraticform)[2]

\* the eigensolver returned a negative primary eigenvalue; it was negated and
\* the eigenvectors were not
C11_Witness ==
    /\ Recomputed /\ IsConic
    /\ RLt(Jacobi(quadraticform)[1][1][1], R(0))
    /\ RGt(eigen[1][1][1], R(0))
    /\ rotationMatrix = Jacobi(quadraticform)[2]
    /\ rotationMatrix # FlipFirst(Jacobi(quadraticform)[2])

\* the two non-primary eigenvalues the branch selector reads
Lambda1 == eigen[1][2][2]
Lambda2 == eigen[1][3][3]

\* the conditions of the three branches, each as the source writes it
Branch1Cond == RLe(Lambda1, R(0)) /\ RLe(Lambda2, R(0))
Branch2Cond == RLe(Lambda1, R(0)) /\ RGt(Lambda2, R(0))
Branch3Cond == RLt(Lambda2, R(0))

\* the last call evaluated the branch selector of the general conic
Selected == IsConic /\ Called /\ eigen # Undefined

BothNonZero == Lambda1 # R(0) /\ Lambda2 # R(0) /\ ~IsNaN(Lambda1) /\ ~IsNaN(Lambda2)

\* C12 as stated: at most one branch is taken, and whenever both eigenvalues
\* are non-zero one is taken, so that v is assigned before it is normalized.
C12_BranchesCover ==
    (Selected /\ BothNonZero)
        => /\ ConicBranch(eigen) \in 1..3
           /\ ~call.threw

\* C12 amended: the branch taken is the first whose condition holds, so at
\* most one is taken; with both eigenvalues non-zero exactly one is taken
\* unless both are positive, and when both are positive none is taken and v
\* is still unassigned when it is normalized.
C12_BranchesCoverButBothPositive ==
    (Selected /\ BothNonZero)
        => /\ ConicBranch(eigen) = (IF Branch1Cond THEN 1 ELSE IF Branch2Cond THEN 2
                                    ELSE IF Branch3Cond THEN 3 ELSE 0)
           /\ (ConicBranch(eigen) = 0) = (RGt(Lambda1, R(0)) /\ RGt(Lambda2, R(0)))
           /\ call.threw = (RGt(Lambda1, R(0)) /\ RGt(Lambda2, R(0)))

\* a call that found both eigenvalues positive and took no branch
C12_Witness ==
    /\ Selected /\ BothNonZero
    /\ RGt(Lambda1, R(0)) /\ RGt(Lambda2, R(0))
    /\ ConicBranch(eigen) = 0 /\ call.threw

\* C13 as stated: once the general conic has recomputed, no call of X or Y
\* raises an error, whatever the signs of the eigenvalues.
C13_NoErrorOnUnhandledSigns ==
    Selected => ~call.threw

\* the matrix the six parents (a00, a11, a22, a01, a02, a12) stand for
SixCoefficientForm ==
    LET a00 == R(parents[1])
        a11 == R(parents[2])
        a22 == R(parents[3])
        a01 == R(parents[4])
        a02 == R(parents[5])
        a12 == R(parents[6])
    IN  << <<a22, a02, a12>>, <<a02, a00, a01>>, <<a12, a01, a11>> >>

C16_MidpointIsMeanOfFoci ==
    (family \in {"ellipse", "hyperbola"})
        => /\ RAdd(Midpoint(F)[1], Midpoint(F)[1]) = RAdd(F[1][1], F[2][1])
           /\ RAdd(Midpoint(F)[2], Midpoint(F)[2]) = RAdd(F[1][2], F[2][2])
           /\ Midpoint(<<Pt(-1, 4), Pt(-1, -4)>>) = Pt(-1, 0)

\* the foci were moved after the last recompute and the last call reused the
\* cache: the rotation still carries the old midpoint, the accessor the new one
C16_Witness ==
    /\ family \in {"ellipse", "hyperbola"}
    /\ Reused /\ ~call.threw /\ call.stale
    /\ <<rotationMatrix[2][1], rotationMatrix[3][1]>> # Midpoint(F)
    /\ F[1] # F[2]
    /\ RAdd(Midpoint(F)[1], Midpoint(F)[1]) = RAdd(F[1][1], F[2][1])

\* v divided by its first entry that is not zero: the same homogeneous vector
Scaled(v) ==
    IF \A k \in I3 : v[k] = R(0) THEN v
    ELSE LET k0 == CHOOSE k \in I3 : v[k] # R(0) /\ \A h \in 1..(k - 1) : v[h] = R(0)
         IN  [k \in I3 |-> RDiv(v[k], v[k0])]

\* c is the centre of the conic of matrix m: the gradient of the form
\* vanishes at c (rows x and y of m annihilate c)
IsCentreOf(c, m) ==
    /\ innerProduct(Scaled(m[2]), Scaled(c)) = R(0)
    /\ innerProduct(Scaled(m[3]), Scaled(c)) = R(0)

\* the affine point of the homogeneous point c = (z, x, y)
Affine(c) == <<RDiv(c[2], c[1]), RDiv(c[3], c[1])>>

\* C17: for the general conic, the midpoint computed from the stored
\* quadraticform is the centre of the conic that quadraticform describes; right
\* after a recomputing call that is the conic of the current inputs, and after
\* a change of the inputs it stays the centre of the form of the last recompute.
C17_MidpointFollowsQuadraticForm ==
    (IsConic /\ quadraticform # Undefined)
        => /\ IsCentreOf(ConicMidpoint(quadraticform), quadraticform)
           /\ Recomputed => IsCentreOf(ConicMidpoint(quadraticform), FreshQuadraticForm)
           /\ ConicMidpoint(quadraticform) = ConicMidpoint(rec.cache[2])

\* the inputs changed after a recompute and the midpoint is still its centre,
\* not the centre of the conic of the current inputs
C17_Witness ==
    /\ IsConic /\ rec.set /\ changed
    /\ ConicMidpoint(quadraticform)[1] # R(0)
    /\ ConicMidpoint(FreshQuadraticForm)[1] # R(0)
    /\ Affine(ConicMidpoint(quadraticform)) # Affine(ConicMidpoint(FreshQuadraticForm))
    /\ ~IsCentreOf(ConicMidpoint(quadraticform), FreshQuadraticForm)
    /\ IsCentreOf(ConicMidpoint(quadraticform), quadraticform)

\* C18: for an ellipse with a < e a recomputing call raises no error, assigns
\* quadraticform, computes b = NaN, and the coordinate it returns is NaN.
C18_DegenerateEllipseIsNaN ==
    (Recomputed /\ family = "ellipse" /\ RLt(EllipseA, EllipseE))
        => /\ ~call.threw
           /\ quadraticform # Undefined
           /\ IsNaN(EllipseB)
           /\ IsNaN(call.ret)

\* a recomputing call on an ellipse whose foci are further apart than majorAxis()
C18_Witness ==
    /\ Recomputed /\ family = "ellipse" /\ RLt(EllipseA, EllipseE)
    /\ ~call.threw /\ IsNaN(EllipseB) /\ IsNaN(call.ret)
    /\ quadraticform = FreshQuadraticForm

\* C20: in every family, a call with suspendUpdate = true made before any call
\* with suspendUpdate = false fails instead of returning a point; a call with
\* suspendUpdate = true returns a point only after a recomputing call.
C20_ReuseBeforeRecomputeFails ==
    /\ (Reused /\ ~rec.set) => call.threw
    /\ (Reused /\ ~call.threw) => rec.set

\* the first call of all is a cache-reusing one, and it fails
C20_Witness ==
    /\ Reused /\ ~rec.set /\ call.threw
    /\ IsConic => (rotationMatrix = Identity /\ eigen = Undefined)
    /\ ~IsConic => rotationMatrix = Undefined

\* the parents of a constructor call have one of the shapes it accepts
Accepted(c) ==
    LET pointlike == {"point", "coords", "name", "pointFn"}
        numeric == {"number", "numberFn"}
    IN  CASE c.ctor \in {"createEllipse", "createHyperbola"} ->
                /\ Len(c.kinds) = 3
                /\ c.kinds[1] \in pointlike /\ c.kinds[2] \in pointlike
                /\ c.kinds[3] \in pointlike \cup numeric
          [] c.ctor = "createParabola" ->
                /\ Len(c.kinds) = 2
                /\ c.kinds[1] \in pointlike /\ c.kinds[2] = "line"
          [] OTHER ->
                \/ Len(c.kinds) = 5 /\ \A i \in 1..5 : c.kinds[i] \in pointlike
                \/ Len(c.kinds) = 6 /\ \A i \in 1..6 : c.kinds[i] \in numeric

\* C14: whenever the parents of a constructor call do not have an accepted
\* shape, the call throws an Error whose message names the types of the
\* parents and lists the accepted shapes, and returns no curve.
C14_WrongShapeThrows ==
    (construction.done /\ ~Accepted(construction.call))
        => /\ construction.outcome.error = "Error"
           /\ construction.outcome.types # << >>
           /\ construction.outcome.shapes
           /\ ~construction.outcome.curve

\* C19: a parabola created without start and end parameter has the
\* parameter range -pi .. pi; supplied parameters are used as they are.
C19_ParabolaRange ==
    (/\ construction.done
     /\ construction.call.ctor = "createParabola"
     /\ construction.outcome.curve)
        => /\ construction.outcome.range[1] =
                (IF construction.call.from = NotSupplied THEN PiTimes(R(-1))
                 ELSE construction.call.from)
           /\ construction.outcome.range[2] =
                (IF construction.call.to = NotSupplied THEN PiTimes(R(1))
                 ELSE construction.call.to)

====
